---- MODULE Spec2Model ----
(***************************************************************************)
(* Model of audit.py: the bank-statement audit of a Paperless-ngx archive. *)
(* One run of main() is a sequence of steps, one per external call (the    *)
(* document store, the extraction service, the cache file); between two    *)
(* external calls the code is deterministic and runs inside the step.      *)
(*                                                                         *)
(* Text is modelled as a sequence of one-character strings, so that the    *)
(* regular expressions of extract_refs are run as the code runs them.      *)
(* Dates are day ordinals; a date string that date.fromisoformat rejects   *)
(* is a date record with iso = FALSE.  Amounts are in cents.               *)
(***************************************************************************)
EXTENDS Integers, Sequences, FiniteSets, TLC

\* ── bounds of the model ──────────────────────────────────────────────
MaxRuns == 2        \* runs of main() for the same (year, month)
MaxTx == 2          \* transactions the extraction returns for a statement
MaxResults == 2     \* documents in one search result page
MaxDescLen == 3     \* characters of the descriptions extract_refs is tried on

\* ── configuration ────────────────────────────────────────────────────
BANK_STATEMENT_TAG_ID == 3
AUDIT_NOTE_PREFIX == "[AUDIT]"

\* The environment variable WRITE_NOTES: not set, or set to a value.
EnvUnset == [set |-> FALSE, value |-> ""]
EnvSet(v) == [set |-> TRUE, value |-> v]
EnvValues == {EnvUnset} \cup {EnvSet(v) : v \in {"true", "True", "YES", "1", "false", "0", "on", ""}}

\* str.lower() on the values above.
Lower(v) ==
    CASE v = "True" -> "true"
      [] v = "YES" -> "yes"
      [] OTHER -> v

\* A faulty variant of WriteNotesFlag: the default is "true".
WriteNotesFlagDefaultOn(env) ==
    Lower(IF env.set THEN env.value ELSE "true") \in {"true", "1", "yes"}

\* os.environ.get("WRITE_NOTES", "false").lower() in ("true", "1", "yes")
WriteNotesFlag(env) ==
    Lower(IF env.set THEN env.value ELSE "false") \in {"true", "1", "yes"}

\* Statement documents of the audited month (ids of the document store).
StmtIds == {1, 2}

\* ── optional values ──────────────────────────────────────────────────
\* Python None for a date bound, and an absent key of a transaction dict.
NoDate == [some |-> FALSE, day |-> 0]
SomeDate(d) == [some |-> TRUE, day |-> d]
NoId == -1
NoTitle == "<absent>"

\* Python truthiness of tx.get("matched_doc_id"): absent, None and 0 are false.
Truthy(id) == id # NoId /\ id # 0

\* ── regular expressions of extract_refs ──────────────────────────────
Upper == {"A", "B", "N", "R"}
Digit == {"1", "2", "5", "7", "9"}
Space == {" "}
NonSpace == Upper \cup Digit \cup {"n", "r", "e_", "k_", "i", "s", ".", "-"}

One(c) == [cls |-> c, min |-> 1, many |-> FALSE, max |-> 1]
Opt(c) == [cls |-> c, min |-> 0, many |-> FALSE, max |-> 1]
Star(c) == [cls |-> c, min |-> 0, many |-> TRUE, max |-> 0]
Plus(c) == [cls |-> c, min |-> 1, many |-> TRUE, max |-> 0]
AtLeast(n, c) == [cls |-> c, min |-> n, many |-> TRUE, max |-> 0]

\* [A-Z]{2,}-\d[\d-]+\d
PatCode == << AtLeast(2, Upper), One({"-"}), One(Digit), Plus(Digit \cup {"-"}), One(Digit) >>
\* [Nn]r\.?\s*(\S+)
PatNr == << One({"N", "n"}), One({"r"}), Opt({"."}), Star(Space), Plus(NonSpace) >>
\* [Rr]ēķin\S*\s+\S*\s*(\S+)
PatRekin == << One({"R", "r"}), One({"e_"}), One({"k_"}), One({"i"}), One({"n"}),
               Star(NonSpace), Plus(Space), Star(NonSpace), Star(Space), Plus(NonSpace) >>

\* The patterns in the order of the list `patterns`; grouped = the pattern has
\* one capture group, which is its last atom.
patterns == << [atoms |-> PatCode, grouped |-> FALSE],
               [atoms |-> PatNr, grouped |-> TRUE],
               [atoms |-> PatRekin, grouped |-> TRUE] >>

Min(a, b) == IF a < b THEN a ELSE b

\* Number of consecutive characters of class c in s from position pos.
RECURSIVE RunLen(_, _, _)
RunLen(s, pos, c) ==
    IF pos > Len(s) \/ s[pos] \notin c THEN 0 ELSE 1 + RunLen(s, pos + 1, c)

NoMatch == [ok |-> FALSE, end |-> 0, gstart |-> 0]

\* Backtracking match of atoms[ai..] at position pos, greedy quantifiers:
\* each atom first takes as many characters as it can and gives them back one
\* by one.  end = position after the match, gstart = where the last atom began.
RECURSIVE ReMatch(_, _, _, _), ReTry(_, _, _, _, _)
ReMatch(s, atoms, ai, pos) ==
    IF ai > Len(atoms)
    THEN [ok |-> TRUE, end |-> pos, gstart |-> pos]
    ELSE LET a == atoms[ai]
             run == RunLen(s, pos, a.cls)
             hi == IF a.many THEN run ELSE Min(run, a.max)
         IN ReTry(s, atoms, ai, pos, hi)
ReTry(s, atoms, ai, pos, n) ==
    IF n < atoms[ai].min THEN NoMatch
    ELSE LET r == ReMatch(s, atoms, ai + 1, pos + n)
         IN IF r.ok
            THEN (IF ai = Len(atoms) THEN [r EXCEPT !.gstart = pos] ELSE r)
            ELSE ReTry(s, atoms, ai, pos, n - 1)

\* re.finditer(pat, desc): the non-overlapping matches from left to right,
\* each giving m.group(1) when the pattern has a group and m.group(0) otherwise.
RECURSIVE finditer(_, _, _)
finditer(pat, s, start) ==
    IF start > Len(s) THEN << >>
    ELSE LET r == ReMatch(s, pat.atoms, 1, start)
         IN IF r.ok
            THEN << SubSeq(s, IF pat.grouped THEN r.gstart ELSE start, r.end - 1) >>
                 \o finditer(pat, s, r.end)
            ELSE finditer(pat, s, start + 1)

RECURSIVE PatternRefs(_, _)
PatternRefs(desc, pi) ==
    IF pi > Len(patterns) THEN << >>
    ELSE finditer(patterns[pi], desc, 1) \o PatternRefs(desc, pi + 1)

\* A faulty variant of extract_refs: the ref field comes after the description.
extract_refs_ref_last(tx) ==
    PatternRefs(tx.description, 1) \o (IF tx.ref # << >> THEN << tx.ref >> ELSE << >>)

\* refs: the ref field when it is not empty, then the matches of the patterns.
extract_refs(tx) ==
    (IF tx.ref # << >> THEN << tx.ref >> ELSE << >>) \o PatternRefs(tx.description, 1)

\* ── transactions and documents ───────────────────────────────────────
\* What extract_transactions returns: the five fields of the extraction
\* schema; the match fields are absent until main() sets them.
Tx(date, amount, counterparty, description, ref) ==
    [date |-> date, amount |-> amount, counterparty |-> counterparty,
     description |-> description, ref |-> ref,
     matched_doc_id |-> NoId, matched_title |-> NoTitle]

IsoDate(d) == [iso |-> TRUE, day |-> d]
BadDate == [iso |-> FALSE, day |-> 0]

\* "Nr. 55": a debit with one reference in the description and no ref.
TxAcme == Tx(IsoDate(400), -12050, "Acme Ltd", << "N", "r", ".", " ", "5", "5" >>, << >>)
\* "AB-1-2 nr9": a credit with a ref and two references in the description.
TxCredit == Tx(IsoDate(410), 5000, "Beta SIA",
               << "A", "B", "-", "1", "-", "2", " ", "n", "r", "9" >>, << "R", "7" >>)
\* No reference at all and a date that is not an ISO date.
TxCash == Tx(BadDate, -300, "Cash", << >>, << >>)

\* "Nr5": a credit with one reference in the description and a date that is
\* not an ISO date.
TxUndated == Tx(BadDate, 700, "Gamma", << "N", "r", "5" >>, << >>)

TxPool == {TxAcme, TxCredit, TxCash, TxUndated}

\* Sequences of at most n elements of S.
RECURSIVE SeqsUpTo(_, _)
SeqsUpTo(S, n) ==
    IF n = 0 THEN {<< >>}
    ELSE LET shorter == SeqsUpTo(S, n - 1)
         IN shorter \cup {Append(q, x) : q \in shorter, x \in S}

\* What the extraction may return for a statement: statement 1 is a statement
\* of up to MaxTx lines of the two kinds with references, statement 2 a
\* statement of at most one line, without a valid date.
Extractable(d) ==
    IF d = 1 THEN SeqsUpTo({TxAcme, TxCredit}, MaxTx)
    ELSE {<< >>, << TxCash >>, << TxUndated >>}

\* Documents a search may return: a bank statement and two other documents,
\* one of them without a title.
NoDoc == [id |-> NoId, title |-> NoTitle, tags |-> {}]
DocStatement == [id |-> 1, title |-> "Statement 03", tags |-> {BANK_STATEMENT_TAG_ID}]
DocInvoice == [id |-> 42, title |-> "Acme Invoice 55231", tags |-> {}]
DocReceipt == [id |-> 43, title |-> NoTitle, tags |-> {5}]
DocPool == {DocStatement, DocInvoice, DocReceipt}

ResultPages == SeqsUpTo(DocPool, MaxResults)

\* ── matching ─────────────────────────────────────────────────────────
\* A faulty variant of find_non_statement: the tag test is missing.
find_non_statement_wrong(results) ==
    IF results = << >> THEN NoDoc ELSE results[1]

RECURSIVE find_non_statement(_)
find_non_statement(results) ==
    IF results = << >> THEN NoDoc
    ELSE IF BANK_STATEMENT_TAG_ID \in results[1].tags
         THEN find_non_statement(Tail(results))
         ELSE results[1]

Abs(n) == IF n < 0 THEN 0 - n ELSE n

\* A faulty variant of Window: a credit looks back as far as a debit.
WindowDebitOnly(tx) ==
    IF tx.date.iso
    THEN [date_from |-> SomeDate(tx.date.day - 30), date_to |-> SomeDate(tx.date.day + 14)]
    ELSE [date_from |-> NoDate, date_to |-> NoDate]

\* date_from, date_to of the reference and counterparty searches.
Window(tx) ==
    LET lookback == IF tx.amount > 0 THEN 365 ELSE 30
    IN IF tx.date.iso
       THEN [date_from |-> SomeDate(tx.date.day - lookback),
             date_to |-> SomeDate(tx.date.day + 14)]
       ELSE [date_from |-> NoDate, date_to |-> NoDate]

\* A faulty variant of NarrowWindow: no fallback for a date that does not parse.
NarrowWindowNoFallback(tx) ==
    [date_from |-> SomeDate(tx.date.day - 5), date_to |-> SomeDate(tx.date.day + 5)]

\* narrow_from, narrow_to of the amount-only search.
NarrowWindow(tx) ==
    IF tx.date.iso
    THEN [date_from |-> SomeDate(tx.date.day - 5), date_to |-> SomeDate(tx.date.day + 5)]
    ELSE [date_from |-> NoDate, date_to |-> NoDate]

\* The request search_documents sends: the query and the date bounds that
\* are not None.
search_documents(tier, ref, counterparty, amount, w) ==
    [tier |-> tier, ref |-> ref, counterparty |-> counterparty, amount |-> amount,
     created__date__gte |-> w.date_from, created__date__lte |-> w.date_to]

\* A faulty variant of SearchRequest: the amount-only search before the counterparty one.
SearchRequestSwapped(tx, i) ==
    LET refs == extract_refs(tx)
        abs_amount == Abs(tx.amount)
    IN IF i <= Len(refs)
       THEN search_documents("ref", refs[i], "", 0, Window(tx))
       ELSE IF i = Len(refs) + 1
            THEN search_documents("amount", << >>, "", abs_amount, NarrowWindow(tx))
            ELSE search_documents("counterparty_amount", << >>, tx.counterparty,
                                  abs_amount, Window(tx))

\* The i-th search of match_transaction(tx): the references in the order of
\* extract_refs, then counterparty and amount, then the amount alone.
SearchRequest(tx, i) ==
    LET refs == extract_refs(tx)
        abs_amount == Abs(tx.amount)
    IN IF i <= Len(refs)
       THEN search_documents("ref", refs[i], "", 0, Window(tx))
       ELSE IF i = Len(refs) + 1
            THEN search_documents("counterparty_amount", << >>, tx.counterparty,
                                  abs_amount, Window(tx))
            ELSE search_documents("amount", << >>, "", abs_amount, NarrowWindow(tx))

\* Number of searches match_transaction(tx) issues when none has a hit.
NumSearches(tx) == Len(extract_refs(tx)) + 2

\* A faulty variant of AfterSearch: a hit of a reference search does not return.
AfterSearchNoReturn(tx, i, doc) ==
    IF doc # NoDoc /\ i > Len(extract_refs(tx)) THEN [ret |-> TRUE, doc |-> doc]
    ELSE IF i >= NumSearches(tx) THEN [ret |-> TRUE, doc |-> NoDoc]
    ELSE [ret |-> FALSE, doc |-> NoDoc]

\* What match_transaction does with doc = find_non_statement(results) of its
\* i-th search: return it, return None after the last search, or go on.
AfterSearch(tx, i, doc) ==
    IF doc # NoDoc THEN [ret |-> TRUE, doc |-> doc]
    ELSE IF i >= NumSearches(tx) THEN [ret |-> TRUE, doc |-> NoDoc]
    ELSE [ret |-> FALSE, doc |-> NoDoc]

\* ── notes ────────────────────────────────────────────────────────────
\* A rendered text is the sequence of the parts that write_audit_note joins
\* with blank lines.  A part is the header line, a section line or the block
\* of one transaction; a block is the record of its lines: the description
\* line is there when description is not empty, the match line when
\* match_doc_id is not NoId.
NoBlock == [symbol |-> "", date |-> BadDate, amount |-> 0, counterparty |-> "",
            description |-> << >>, match_doc_id |-> NoId, match_title |-> ""]

format_tx_block(tx, symbol) ==
    [symbol |-> symbol, date |-> tx.date, amount |-> tx.amount,
     counterparty |-> tx.counterparty, description |-> tx.description,
     match_doc_id |-> IF Truthy(tx.matched_doc_id) THEN tx.matched_doc_id ELSE NoId,
     match_title |-> IF Truthy(tx.matched_doc_id) /\ tx.matched_title # NoTitle
                     THEN tx.matched_title ELSE ""]

HeaderPart(label, count, total) ==
    [part |-> "header", label |-> label, count |-> count, total |-> total, block |-> NoBlock]
SectionPart(label, count, total) ==
    [part |-> "section", label |-> label, count |-> count, total |-> total, block |-> NoBlock]
BlockPart(b) ==
    [part |-> "block", label |-> "", count |-> 0, total |-> 0, block |-> b]

IsMatched(tx) == Truthy(tx.matched_doc_id)
IsMissing(tx) == ~Truthy(tx.matched_doc_id)

RECURSIVE Blocks(_, _)
Blocks(txs, symbol) ==
    IF txs = << >> THEN << >>
    ELSE << BlockPart(format_tx_block(txs[1], symbol)) >> \o Blocks(Tail(txs), symbol)

\* A faulty variant of RenderNote: the MISSING section is written even when empty.
RenderNoteAlwaysMissing(transactions) ==
    LET missing == SelectSeq(transactions, IsMissing)
        matched == SelectSeq(transactions, IsMatched)
        total == Len(transactions)
    IN << HeaderPart(AUDIT_NOTE_PREFIX, Len(matched), total) >>
       \o << SectionPart("[MISSING]", Len(missing), total) >> \o Blocks(missing, "x")
       \o (IF matched # << >>
           THEN << SectionPart("[MATCHED]", Len(matched), total) >> \o Blocks(matched, "v")
           ELSE << >>)

\* A faulty variant of RenderNote: the header counts the missing transactions.
RenderNoteCountsMissing(transactions) ==
    LET missing == SelectSeq(transactions, IsMissing)
        matched == SelectSeq(transactions, IsMatched)
        total == Len(transactions)
    IN << HeaderPart(AUDIT_NOTE_PREFIX, Len(missing), total) >>
       \o (IF missing # << >>
           THEN << SectionPart("[MISSING]", Len(missing), total) >> \o Blocks(missing, "x")
           ELSE << >>)
       \o (IF matched # << >>
           THEN << SectionPart("[MATCHED]", Len(matched), total) >> \o Blocks(matched, "v")
           ELSE << >>)

\* note_text of write_audit_note(doc_id, transactions).
RenderNote(transactions) ==
    LET missing == SelectSeq(transactions, IsMissing)
        matched == SelectSeq(transactions, IsMatched)
        total == Len(transactions)
    IN << HeaderPart(AUDIT_NOTE_PREFIX, Len(matched), total) >>
       \o (IF missing # << >>
           THEN << SectionPart("[MISSING]", Len(missing), total) >> \o Blocks(missing, "x")
           ELSE << >>)
       \o (IF matched # << >>
           THEN << SectionPart("[MATCHED]", Len(matched), total) >> \o Blocks(matched, "v")
           ELSE << >>)

\* note.get("note", "").startswith(AUDIT_NOTE_PREFIX)
StartsWithAudit(text) == text # << >> /\ text[1].label = AUDIT_NOTE_PREFIX

\* A note somebody else wrote on the document.
UserText == << [part |-> "text", label |-> "checked by hand", count |-> 0, total |-> 0,
                block |-> NoBlock] >>

\* get_existing_audit_note, given the notes the store lists: the id of the
\* first note that starts with the prefix, NoId when there is none.
RECURSIVE get_existing_audit_note(_)
get_existing_audit_note(listed) ==
    IF listed = << >> THEN NoId
    ELSE IF StartsWithAudit(listed[1].note) THEN listed[1].id
         ELSE get_existing_audit_note(Tail(listed))

\* The store after DELETE .../notes/?id=old_id and after POST .../notes/.
DeleteNote(listed, old_id) == SelectSeq(listed, LAMBDA n : n.id # old_id)
CreateNote(listed, id, text) == Append(listed, [id |-> id, note |-> text])

AuditNotes(listed) == SelectSeq(listed, LAMBDA n : StartsWithAudit(n.note))

\* ── cache ────────────────────────────────────────────────────────────
\* The cache is the mapping cache["statements"]: statement id -> transactions.
\* The key is str(stmt["id"]), one string per id, so the id stands for it.
EmptyCache == [d \in {} |-> << >>]

\* A faulty variant of load_cache: the file is not read.
load_cache_empty(file) == EmptyCache

\* load_cache: the persisted mapping, or the empty one when there is no file.
load_cache(file) == IF file.exists THEN file.statements ELSE EmptyCache

\* save_cache: the whole structure is rewritten.
save_cache(data) == [exists |-> TRUE, statements |-> data]

\* cache["statements"][doc_id] = {"transactions": transactions}
Put(c, d, txs) == [x \in DOMAIN c \cup {d} |-> IF x = d THEN txs ELSE c[x]]

\* A faulty variant of IsCached: the cache is never consulted.
IsCachedNever(c, d) == FALSE

\* doc_id in cache["statements"]
IsCached(c, d) == d \in DOMAIN c

\* A faulty variant of AlreadyMatched: a matched transaction is searched again.
AlreadyMatchedNever(tx) == FALSE

\* tx.get("matched_doc_id"), the test that skips a matched transaction.
AlreadyMatched(tx) == Truthy(tx.matched_doc_id)

\* A faulty variant of SetMatch: the title is not stored.
SetMatchNoTitle(tx, doc) == [tx EXCEPT !.matched_doc_id = doc.id]

\* A faulty variant of SetMatch: the ref field is cleared with the match.
SetMatchClearsRef(tx, doc) ==
    [tx EXCEPT !.matched_doc_id = doc.id,
               !.matched_title = IF doc.title = NoTitle THEN "" ELSE doc.title,
               !.ref = << >>]

\* tx["matched_doc_id"] = match["id"]; tx["matched_title"] = match.get("title", "")
SetMatch(tx, doc) ==
    [tx EXCEPT !.matched_doc_id = doc.id,
               !.matched_title = IF doc.title = NoTitle THEN "" ELSE doc.title]

\* ── summary ──────────────────────────────────────────────────────────
\* The coverage line of the summary: printed or not, and its percentage.
NoCoverage == [shown |-> FALSE, pct |-> 0]

\* f"{total_matched / total * 100:.0f}": the quotient rounded to the nearest
\* integer, a tie to the even one (for the totals of the model the floating
\* point quotient is the exact one or is not a tie).
Coverage(matched, total) ==
    LET q == (100 * matched) \div total
        r == (100 * matched) % total
    IN [shown |-> TRUE,
        pct |-> IF 2 * r > total \/ (2 * r = total /\ q % 2 = 1) THEN q + 1 ELSE q]

\* What the summary prints: the three counts, and the coverage `if total`.
Summary(matched, unmatched) ==
    LET total == matched + unmatched
    IN [printed |-> TRUE, total |-> total, matched |-> matched, unmatched |-> unmatched,
        coverage |-> IF total # 0 THEN Coverage(matched, total) ELSE NoCoverage]

NoSummary == [printed |-> FALSE, total |-> 0, matched |-> 0, unmatched |-> 0,
              coverage |-> NoCoverage]

\* ── state ────────────────────────────────────────────────────────────
VARIABLES
    disk,             \* the cache file of the month
    notes,            \* document store: statement id -> its notes
    next_note_id,     \* document store: id of the next note created
    runs,             \* runs started so far
    pc,               \* where the current run is
    WRITE_NOTES,      \* the flag of the current run
    statements,       \* ids of get_statements' documents, in order
    si,               \* position of stmt in statements
    cache,            \* the in-memory cache; transactions is cache[doc_id]
    ti,               \* position of tx in transactions
    total_matched,
    total_unmatched,
    qi,               \* match_transaction: number of the search in progress
    note_text,        \* write_audit_note: the rendered text
    old_id,           \* write_audit_note: id of the note to delete
    \* what the run has done so far
    loaded,           \* the cache as load_cache returned it
    match_calls,      \* <<statement id, position>> of each match_transaction call
    searched,         \* <<statement id, position>> of the transactions searched for
    search_log,       \* current match_transaction: its requests and their hits
    match_ret,        \* latest return of match_transaction, and the first result
                      \* of its last search
    saves,            \* save_cache calls
    disk_before,      \* the cache file when the run started
    stop_at,          \* the call at which the run failed or was killed
    skipped,          \* statements skipped
    note_ret,         \* [doc, text] of the write_audit_note calls that returned
    summary,          \* what the run printed as its summary
    note_calls        \* statement ids of the write_audit_note calls, in order

vars == << disk, notes, next_note_id, runs, pc, WRITE_NOTES, statements, si, cache, ti,
           total_matched, total_unmatched, qi, note_text, old_id, loaded,
           match_calls, searched, search_log, match_ret, saves,
           disk_before, stop_at, skipped, note_ret, summary,
           note_calls >>

store == << notes, next_note_id >>
counters == << total_matched, total_unmatched >>
matching == << qi, match_calls, searched, search_log, match_ret >>
note_locals == << note_text, old_id >>

NotReturned == [returned |-> FALSE, doc |-> NoDoc, first |-> NoDoc]

Stopped == {"idle", "done", "aborted", "crashed", "killed"}

\* What get_statements may return: the month's statements, distinct documents.
StatementLists == {<< >>, << 1 >>, << 2 >>, << 1, 2 >>}

\* Statement 1 carries a note of its owner and the audit note of an audit made
\* before the cache file was removed; statement 2 carries no note.
OldNotes == << [id |-> 1, note |-> UserText], [id |-> 2, note |-> RenderNote(<< >>)] >>

Init ==
    /\ disk = [exists |-> FALSE, statements |-> EmptyCache]
    /\ notes = [d \in StmtIds |-> IF d = 1 THEN OldNotes ELSE << >>]
    /\ next_note_id = 3
    /\ runs = 0
    /\ pc = "idle"
    /\ WRITE_NOTES = FALSE
    /\ statements = << >>
    /\ si = 1
    /\ cache = EmptyCache
    /\ ti = 1
    /\ total_matched = 0
    /\ total_unmatched = 0
    /\ qi = 1
    /\ note_text = << >>
    /\ old_id = NoId
    /\ loaded = EmptyCache
    /\ match_calls = << >>
    /\ searched = {}
    /\ search_log = << >>
    /\ match_ret = NotReturned
    /\ saves = 0
    /\ disk_before = disk
    /\ stop_at = ""
    /\ skipped = {}
    /\ note_ret = {}
    /\ summary = NoSummary
    /\ note_calls = << >>

\* ── a run of main() ──────────────────────────────────────────────────
\* What a process holds when main() enters the statement loop.
Fresh(new_pc, stmts, c) ==
    /\ pc' = new_pc
    /\ statements' = stmts
    /\ cache' = c
    /\ loaded' = c
    /\ si' = 1
    /\ ti' = 1
    /\ total_matched' = 0
    /\ total_unmatched' = 0
    /\ qi' = 1
    /\ note_text' = << >>
    /\ old_id' = NoId
    /\ match_calls' = << >>
    /\ searched' = {}
    /\ search_log' = << >>
    /\ match_ret' = NotReturned
    /\ skipped' = {}
    /\ note_ret' = {}
    /\ note_calls' = << >>

\* A new process: python audit.py YYYY MM, for the same month as before, with
\* WRITE_NOTES as its environment sets it.  The model follows at most MaxRuns
\* runs, and none after a run that had WRITE_NOTES on.
NewProcess(new_pc, flag, stmts, c, stop) ==
    /\ pc \in Stopped
    /\ runs < MaxRuns
    /\ ~WRITE_NOTES
    /\ runs' = runs + 1
    /\ WRITE_NOTES' = flag
    /\ Fresh(new_pc, stmts, c)
    /\ stop_at' = stop
    /\ saves' = 0
    /\ disk_before' = disk
    /\ summary' = NoSummary
    /\ UNCHANGED << disk, store >>

\* A required environment variable is missing: the module fails at import,
\* before main() does anything.
ConfigError == NewProcess("aborted", FALSE, << >>, EmptyCache, "config")

\* get_statements raises (raise_for_status): main() has no handler.
GetStatementsFails == NewProcess("crashed", FALSE, << >>, EmptyCache, "get_statements")

\* get_statements returns no document: main() returns before load_cache.
NoStatements == NewProcess("done", FALSE, << >>, EmptyCache, "")

\* get_statements returns the month's statements; the cache is loaded.
StartRun ==
    \E env \in EnvValues, stmts \in StatementLists \ {<< >>} :
        NewProcess("stmt", WriteNotesFlag(env), stmts, load_cache(disk), "")

doc_id == statements[si]
transactions == cache[doc_id]

run_frame == << disk, runs, WRITE_NOTES, statements, loaded, saves, disk_before, stop_at,
               summary >>

\* The process ends before the end of main(): what it held in memory is
\* gone; the cache file and the document store stay as they are.
Halt(how, at) ==
    /\ Fresh(how, << >>, EmptyCache)
    /\ stop_at' = at
    /\ UNCHANGED << disk, store, runs, WRITE_NOTES, saves, disk_before, summary >>

\* An uncaught exception of the call `at`.
Crash(at) == Halt("crashed", at)

\* `continue`, and the end of the loop body: on to the next statement.
NextStatement ==
    /\ pc' = "stmt"
    /\ si' = si + 1
    /\ ti' = 1

\* The record of the latest match_transaction call is kept until the loop
\* takes its next step.
MatchForgotten ==
    /\ search_log' = << >>
    /\ match_ret' = NotReturned

\* A faulty variant of BeginStatement: the cache is saved at every statement.
BeginStatementSaving ==
    /\ pc = "stmt"
    /\ IF si > Len(statements)
       THEN pc' = "save"
       ELSE IF IsCached(cache, doc_id) THEN pc' = "tx" ELSE pc' = "download"
    /\ ti' = 1
    /\ disk' = save_cache(cache)
    /\ saves' = saves + 1
    /\ UNCHANGED << runs, WRITE_NOTES, statements, loaded, disk_before, stop_at, store,
                    si, cache, counters, matching, note_locals, note_ret, note_calls, skipped,
                    summary >>

\* The head of `for stmt in statements`: the cached transactions, or the
\* download; after the last statement, the save.
BeginStatement ==
    /\ pc = "stmt"
    /\ IF si > Len(statements)
       THEN pc' = "save"
       ELSE IF IsCached(cache, doc_id) THEN pc' = "tx" ELSE pc' = "download"
    /\ ti' = 1
    /\ UNCHANGED << run_frame, store, si, cache, counters, matching, note_locals,
                    note_ret, note_calls, skipped >>

\* download_original and parse_xls_to_text, inside try/except: a text, nothing
\* (no spreadsheet, a parse failure, any exception), which leads to the OCR
\* fallback, or a text of blanks only (a sheet whose cells hold blanks), for
\* which there is no fallback: the statement is skipped.
Download ==
    /\ pc = "download"
    /\ \/ /\ \E content \in {"text", "none"} :
                pc' = IF content = "text" THEN "extract" ELSE "ocr"
          /\ UNCHANGED << si, ti, skipped >>
       \/ /\ NextStatement
          /\ skipped' = skipped \cup {doc_id}
    /\ UNCHANGED << run_frame, store, cache, counters, matching, note_locals,
                    note_ret, note_calls >>

\* get_document_content, the OCR fallback: a text, an empty text (the
\* statement is skipped), or an exception, which nothing catches.
GetContent ==
    /\ pc = "ocr"
    /\ \/ /\ \/ /\ pc' = "extract"
                /\ UNCHANGED << si, ti, skipped >>
             \/ /\ NextStatement
                /\ skipped' = skipped \cup {doc_id}
          /\ UNCHANGED << run_frame, store, cache, counters, matching, note_locals,
                          note_ret, note_calls >>
       \/ Crash("get_document_content")

\* A faulty variant of Extract: a failed extraction is cached as an empty list.
ExtractCachesFailure ==
    /\ pc = "extract"
    /\ \/ /\ \/ \E txs \in Extractable(doc_id) :
                   /\ cache' = Put(cache, doc_id, txs)
                   /\ pc' = "tx"
                   /\ ti' = 1
                   /\ UNCHANGED << si, skipped >>
             \/ /\ NextStatement
                /\ skipped' = skipped \cup {doc_id}
                /\ cache' = Put(cache, doc_id, << >>)
          /\ UNCHANGED << run_frame, store, counters, matching, note_locals, note_ret,
                          note_calls >>
       \/ Crash("transactions")

\* extract_transactions, inside try/except: the transactions, which are put in
\* the cache, or an exception (the statement is skipped).  When the reply is
\* JSON but not a list of transaction objects, extract_transactions returns
\* it, line 414 caches it and the loop over it raises (lines 417-426), which
\* nothing catches.
Extract ==
    /\ pc = "extract"
    /\ \/ /\ \/ \E txs \in Extractable(doc_id) :
                   /\ cache' = Put(cache, doc_id, txs)
                   /\ pc' = "tx"
                   /\ ti' = 1
                   /\ UNCHANGED << si, skipped >>
             \/ /\ NextStatement
                /\ skipped' = skipped \cup {doc_id}
                /\ UNCHANGED cache
          /\ UNCHANGED << run_frame, store, counters, matching, note_locals, note_ret,
                          note_calls >>
       \/ Crash("transactions")

\* A faulty variant of AfterTransactions: the note is written whatever the flag.
AfterTransactionsAlways ==
    /\ pc' = "note_list"
    /\ note_text' = RenderNote(transactions)
    /\ note_calls' = Append(note_calls, doc_id)
    /\ UNCHANGED << si, ti >>

\* After the last transaction of a statement: `if WRITE_NOTES:
\* write_audit_note(stmt["id"], transactions)`, which renders the text before
\* its first request; otherwise the next statement.
AfterTransactions ==
    IF WRITE_NOTES
    THEN /\ pc' = "note_list"
         /\ note_text' = RenderNote(transactions)
         /\ note_calls' = Append(note_calls, doc_id)
         /\ UNCHANGED << si, ti >>
    ELSE /\ NextStatement
         /\ UNCHANGED << note_text, note_calls >>

\* A faulty variant of PassOverMatched: the transaction is not counted.
PassOverMatchedUncounted ==
    /\ ti' = ti + 1
    /\ UNCHANGED << pc, si, total_matched, total_unmatched, qi, match_calls, searched,
                    note_text, note_calls >>

\* A transaction that is matched already: total_matched += 1; continue.
PassOverMatched ==
    /\ total_matched' = total_matched + 1
    /\ ti' = ti + 1
    /\ UNCHANGED << pc, si, total_unmatched, qi, match_calls, searched,
                    note_text, note_calls >>

\* The head of `for tx in transactions`: a matched transaction is counted and
\* passed over, an unmatched one goes to match_transaction; after the last
\* one, the note (when WRITE_NOTES) and the next statement.
NextTransaction ==
    /\ pc = "tx"
    /\ MatchForgotten
    /\ IF ti > Len(transactions)
       THEN /\ AfterTransactions
            /\ UNCHANGED << counters, qi, match_calls, searched >>
       ELSE IF AlreadyMatched(transactions[ti])
            THEN PassOverMatched
            ELSE /\ pc' = "search"
                 /\ qi' = 1
                 /\ match_calls' = Append(match_calls, << doc_id, ti >>)
                 /\ UNCHANGED << si, ti, counters, searched, note_text, note_calls >>
    /\ UNCHANGED << run_frame, store, cache, old_id, note_ret, skipped >>

\* One search of match_transaction(tx), and what follows it without another
\* external call: the return and the bookkeeping of main().
Search ==
    /\ pc = "search"
    /\ \/ \* paperless_get raises: nothing catches it
          Crash("search_documents")
       \/ \E results \in ResultPages :
             LET tx == transactions[ti]
                 request == SearchRequest(tx, qi)
                 doc == find_non_statement(results)
                 after == AfterSearch(tx, qi, doc)
             IN /\ searched' = searched \cup {<< doc_id, ti >>}
                /\ search_log' = Append(search_log, [request |-> request, hit |-> doc])
                /\ IF ~after.ret
                   THEN /\ qi' = qi + 1
                        /\ UNCHANGED << pc, ti, cache, counters, match_ret >>
                   ELSE /\ match_ret' = [returned |-> TRUE, doc |-> after.doc,
                                         first |-> Head(results \o << NoDoc >>)]
                        /\ pc' = "tx"
                        /\ ti' = ti + 1
                        /\ UNCHANGED qi
                        /\ IF after.doc # NoDoc
                           THEN /\ cache' = [cache EXCEPT
                                              ![doc_id][ti] = SetMatch(tx, after.doc)]
                                /\ total_matched' = total_matched + 1
                                /\ UNCHANGED total_unmatched
                           ELSE /\ total_unmatched' = total_unmatched + 1
                                /\ UNCHANGED << cache, total_matched >>
                /\ UNCHANGED << run_frame, store, si, match_calls, note_locals, note_ret, note_calls, skipped >>

\* write_audit_note, first request: get_existing_audit_note lists the notes of
\* the document (paperless_get raises on an error status).
ListNotes ==
    /\ pc = "note_list"
    /\ \/ /\ old_id' = get_existing_audit_note(notes[doc_id])
          /\ pc' = IF Truthy(old_id') THEN "note_delete" ELSE "note_post"
          /\ UNCHANGED << run_frame, store, si, ti, cache, counters, matching, note_text,
                          note_ret, note_calls, skipped >>
       \/ Crash("list_notes")

\* write_audit_note, second request: requests.delete of the old note.  The
\* response is not looked at: an error status goes unnoticed and the note
\* stays; only a failure of the connection raises.
DeleteOldNote ==
    /\ pc = "note_delete"
    /\ \/ /\ \/ notes' = [notes EXCEPT ![doc_id] = DeleteNote(@, old_id)]
             \/ UNCHANGED notes
          /\ pc' = "note_post"
          /\ UNCHANGED << run_frame, next_note_id, si, ti, cache, counters, matching,
                          note_locals, note_ret, note_calls, skipped >>
       \/ Crash("delete_note")

\* write_audit_note, third request: requests.post of the new note, its
\* response not looked at either; then write_audit_note returns and the loop
\* goes on to the next statement.
CreateNewNote ==
    /\ pc = "note_post"
    /\ \/ /\ \/ /\ notes' = [notes EXCEPT
                              ![doc_id] = CreateNote(@, next_note_id, note_text)]
                /\ next_note_id' = next_note_id + 1
             \/ UNCHANGED store
          /\ note_ret' = note_ret \cup {[doc |-> doc_id, text |-> note_text]}
          /\ NextStatement
          /\ UNCHANGED << run_frame, cache, note_calls, counters, matching, note_locals,
                          skipped >>
       \/ Crash("create_note")

\* save_cache(year, month, cache), after the loop; then the summary is printed.
SaveCache ==
    /\ pc = "save"
    /\ disk' = save_cache(cache)
    /\ saves' = saves + 1
    /\ pc' = "done"
    /\ summary' = Summary(total_matched, total_unmatched)
    /\ UNCHANGED << runs, WRITE_NOTES, statements, loaded, disk_before, stop_at, store,
                    si, ti, cache, counters, matching, note_locals, note_ret, note_calls,
                    skipped >>

\* The process is terminated from outside, wherever the run is.
Interrupt ==
    /\ pc \notin Stopped
    /\ Halt("killed", pc)

Next ==
    \/ ConfigError
    \/ GetStatementsFails
    \/ NoStatements
    \/ StartRun
    \/ BeginStatement
    \/ Download
    \/ GetContent
    \/ Extract
    \/ NextTransaction
    \/ Search
    \/ ListNotes
    \/ DeleteOldNote
    \/ CreateNewNote
    \/ SaveCache
    \/ Interrupt

Spec == Init /\ [][Next]_vars

\* ── properties ───────────────────────────────────────────────────────
HasTag(doc) == BANK_STATEMENT_TAG_ID \in doc.tags

\* The transaction the record of match_transaction is about: the current one
\* while the searches go on, the one before the current one once it returned.
LogTx == IF pc = "search" THEN transactions[ti] ELSE transactions[ti - 1]

LastSearch == search_log[Len(search_log)]

\* C1: match_transaction never returns a document tagged as a bank statement:
\* neither the hit of any of its searches, whatever the tier, nor its return
\* value is one, and no transaction of the cache is matched to a statement.
C1_NeverReturnsStatement ==
    /\ ~HasTag(match_ret.doc)
    /\ \A j \in 1..Len(search_log) : ~HasTag(search_log[j].hit)
    /\ \A d \in DOMAIN cache : \A i \in 1..Len(cache[d]) :
          cache[d][i].matched_doc_id \notin StmtIds

\* C1 witness: an amount-only search whose first result was a bank statement
\* returned the document after it.
C1_Witness ==
    /\ match_ret.returned
    /\ match_ret.first = DocStatement
    /\ match_ret.doc = DocReceipt
    /\ LastSearch.request.tier = "amount"

\* C2: the searches of match_transaction are, in this order, one per token of
\* extract_refs, one for counterparty and amount, one for the amount alone;
\* no search follows one that had a non-statement result, whose first such
\* result is returned; None is returned only after all len(refs) + 2 searches
\* had none.
C2_TieredOrder ==
    search_log # << >> =>
        LET tx == LogTx
            refs == extract_refs(tx)
            n == Len(search_log)
        IN /\ n <= Len(refs) + 2
           /\ \A j \in 1..n :
                 LET r == search_log[j].request
                 IN /\ j <= Len(refs) => r.tier = "ref" /\ r.ref = refs[j]
                    /\ j = Len(refs) + 1 =>
                          /\ r.tier = "counterparty_amount"
                          /\ r.counterparty = tx.counterparty
                          /\ r.amount = Abs(tx.amount)
                    /\ j = Len(refs) + 2 => r.tier = "amount" /\ r.amount = Abs(tx.amount)
                    /\ j < n => search_log[j].hit = NoDoc
           /\ IF match_ret.returned
              THEN /\ match_ret.doc = LastSearch.hit
                   /\ match_ret.doc = NoDoc => n = Len(refs) + 2
                   /\ ~HasTag(match_ret.first) => match_ret.doc = match_ret.first
              ELSE /\ pc = "search"
                   /\ qi = n + 1
                   /\ LastSearch.hit = NoDoc

\* C2 witness: the scenario of the Acme debit: the reference search has no
\* acceptable result, the counterparty search returns document 42 first, the
\* transaction is matched to it and no amount-only search was issued.
C2_Witness ==
    /\ match_ret.returned
    /\ match_ret.doc = DocInvoice
    /\ match_ret.first = DocInvoice
    /\ Len(search_log) = 2
    /\ LastSearch.request.tier = "counterparty_amount"
    /\ LogTx.counterparty = "Acme Ltd"
    /\ LogTx.matched_doc_id = 42

AllMatched(txs) == \A i \in 1..Len(txs) : Truthy(txs[i].matched_doc_id)

\* C3: a transaction that is matched in the loaded cache is never searched for
\* in the run and keeps its matched_doc_id and matched_title; a run over one
\* statement whose cached transactions are all matched issues no search and
\* reports all of them as matched.
C3_Sticky ==
    /\ \A d \in DOMAIN loaded : \A i \in 1..Len(loaded[d]) :
          Truthy(loaded[d][i].matched_doc_id) =>
              /\ << d, i >> \notin searched
              /\ \A c \in 1..Len(match_calls) : match_calls[c] # << d, i >>
              /\ d \in DOMAIN cache
              /\ i <= Len(cache[d])
              /\ cache[d][i].matched_doc_id = loaded[d][i].matched_doc_id
              /\ cache[d][i].matched_title = loaded[d][i].matched_title
    /\ \A d \in DOMAIN loaded :
          pc = "done" /\ statements = << d >> /\ AllMatched(loaded[d]) =>
              /\ searched = {}
              /\ total_matched = Len(loaded[d])
              /\ total_unmatched = 0

\* C3 witness: a finished run over statement 1, whose two cached transactions
\* were both matched when the cache was loaded.
C3_Witness ==
    /\ pc = "done"
    /\ statements = << 1 >>
    /\ 1 \in DOMAIN loaded
    /\ Len(loaded[1]) = 2
    /\ AllMatched(loaded[1])
    /\ searched = {}
    /\ total_matched = 2

\* The positions of the transactions of txs that are not matched, from position
\* i on, as the calls << d, position >> of match_transaction.
RECURSIVE UnmatchedCalls(_, _, _)
UnmatchedCalls(d, txs, i) ==
    IF i > Len(txs) THEN << >>
    ELSE (IF Truthy(txs[i].matched_doc_id) THEN << >> ELSE << << d, i >> >>)
         \o UnmatchedCalls(d, txs, i + 1)

CallsFor(d) == SelectSeq(match_calls, LAMBDA c : c[1] = d)

IsPrefix(a, b) == Len(a) <= Len(b) /\ SubSeq(b, 1, Len(a)) = a

\* The five extracted fields of a transaction.
Extracted(tx) == << tx.date, tx.amount, tx.counterparty, tx.description, tx.ref >>

\* The loop has gone past statement d.
Processed(d) == \E k \in 1..Len(statements) : statements[k] = d /\ k < si

\* C4: for a statement that is a key of the loaded cache, the run is never at
\* download_original, get_document_content or extract_transactions; its
\* transactions are those of the cache; match_transaction is called only for
\* those that were unmatched when loaded, in order, once each, and for all of
\* them by the time the loop leaves the statement.
C4_CachedNotExtracted ==
    /\ pc \in {"download", "ocr", "extract"} => doc_id \notin DOMAIN loaded
    /\ \A d \in DOMAIN loaded :
          /\ d \in DOMAIN cache
          /\ Len(cache[d]) = Len(loaded[d])
          /\ \A i \in 1..Len(loaded[d]) : Extracted(cache[d][i]) = Extracted(loaded[d][i])
          /\ IsPrefix(CallsFor(d), UnmatchedCalls(d, loaded[d], 1))
          /\ Processed(d) => CallsFor(d) = UnmatchedCalls(d, loaded[d], 1)

\* C4 witness: a finished run over the cached statement 1, whose first
\* transaction was matched and whose second was not: one call, for the second.
C4_Witness ==
    /\ pc = "done"
    /\ statements = << 1 >>
    /\ 1 \in DOMAIN loaded
    /\ Len(loaded[1]) = 2
    /\ Truthy(loaded[1][1].matched_doc_id)
    /\ ~Truthy(loaded[1][2].matched_doc_id)
    /\ match_calls = << << 1, 2 >> >>

\* The cache file `new` holds what `old` held: every statement key, with as
\* many transactions, and every match, to the same document.
Keeps(old, new) ==
    /\ old.exists => new.exists
    /\ \A d \in DOMAIN old.statements :
          /\ d \in DOMAIN new.statements
          /\ Len(new.statements[d]) = Len(old.statements[d])
          /\ \A i \in 1..Len(old.statements[d]) :
                Truthy(old.statements[d][i].matched_doc_id) =>
                    new.statements[d][i].matched_doc_id = old.statements[d][i].matched_doc_id

\* C5: the cache file grows monotonically over the runs: whatever changes it
\* keeps every statement key with its number of transactions and every match
\* with its document id, also for the statements the run did not fetch.
C5_CacheMonotone == [][Keeps(disk, disk')]_vars

\* C5 witness: the second run fetched statement 2 only and saved a cache that
\* has gained statement 2 and still holds statement 1 with a match.
C5_Witness ==
    /\ pc = "done"
    /\ statements = << 2 >>
    /\ saves = 1
    /\ 1 \in DOMAIN disk_before.statements
    /\ 2 \notin DOMAIN disk_before.statements
    /\ DOMAIN disk.statements = {1, 2}
    /\ \E i \in 1..Len(disk.statements[1]) : Truthy(disk.statements[1][i].matched_doc_id)

\* C6 as stated: a run that ends without being interrupted has called
\* save_cache exactly once; a run that stopped early has called it zero times
\* and left the cache file as it was.
C6_SavedOncePerRun ==
    /\ pc = "done" => saves = 1
    /\ pc \in {"crashed", "killed"} => saves = 0 /\ disk = disk_before

\* C6, amended: a run that found at least one statement and is not
\* interrupted calls save_cache exactly once, after the last statement and
\* never while the loop runs; a run that found no statement returns before the
\* cache is loaded and never calls it; a run that stops before the end of the
\* loop never calls it; in both cases the cache file is as it was.
C6_SavedOnceIfStatements ==
    /\ pc = "done" /\ statements # << >> => saves = 1 /\ disk = save_cache(cache)
    /\ pc = "done" /\ statements = << >> => saves = 0 /\ disk = disk_before
    /\ pc \in {"crashed", "killed", "aborted"} => saves = 0 /\ disk = disk_before
    /\ pc \notin Stopped => saves = 0 /\ disk = disk_before

\* C6 witness: a finished run over two statements has saved once, and the
\* cache file has changed.
C6_Witness ==
    /\ pc = "done"
    /\ Len(statements) = 2
    /\ saves = 1
    /\ disk # disk_before
    /\ total_matched > 0

\* C6 witness of the loss: a run killed at the save, after the loop.
C6_KilledAtSave == pc = "killed" /\ stop_at = "save" /\ disk = disk_before

\* C7 as stated: no failure of a call made for a statement ends the run.
C7_NoPerStatementFailureIsFatal ==
    pc = "crashed" =>
        stop_at \notin {"get_document_content", "transactions", "search_documents",
                        "list_notes", "delete_note", "create_note"}

AuditCount(d) == Len(AuditNotes(notes[d]))

\* C8 as stated: every statement document carries at most one audit note.
C8_AtMostOneAuditNote == \A d \in StmtIds : AuditCount(d) <= 1

\* C9 as stated, second half: once write_audit_note has returned, the document
\* carries exactly one audit note, with the text rendered by the call.
C9_ExactlyOneAfterReturn ==
    \A r \in note_ret :
        /\ AuditCount(r.doc) = 1
        /\ AuditNotes(notes[r.doc])[1].note = r.text

\* C9, first half: between the delete and the create, the document that
\* carried an audit note carries none.
C9_ZeroBetween ==
    /\ pc = "note_post"
    /\ Truthy(old_id)
    /\ AuditCount(doc_id) = 0

Sections(text, label) ==
    {j \in 1..Len(text) : text[j].part = "section" /\ text[j].label = label}

MatchedUpTo(txs, i) == Cardinality({j \in 1..i : Truthy(txs[j].matched_doc_id)})

\* The text says of part j what the block of transaction tx says, under symbol.
IsBlockOf(text, j, tx, symbol) ==
    /\ j \in 1..Len(text)
    /\ text[j].part = "block"
    /\ text[j].block.symbol = symbol
    /\ text[j].block.date = tx.date
    /\ text[j].block.amount = tx.amount
    /\ text[j].block.counterparty = tx.counterparty
    /\ text[j].block.description = tx.description
    /\ text[j].block.match_doc_id = (IF symbol = "v" THEN tx.matched_doc_id ELSE NoId)

\* C10: for n transactions of which k are matched, the text written starts
\* with "[AUDIT] k/n"; it has a "[MISSING][n-k/n]" section iff k < n and a
\* "[MATCHED][k/n]" section iff k > 0, MISSING before MATCHED; every
\* transaction has its block in exactly one section, the unmatched ones under
\* MISSING and the matched ones under MATCHED, and there is no other block.
C10_NoteText ==
    pc \in {"note_list", "note_delete", "note_post"} =>
        LET txs == transactions
            text == note_text
            n == Len(txs)
            k == MatchedUpTo(txs, n)
            missing == Sections(text, "[MISSING]")
            matched == Sections(text, "[MATCHED]")
        IN /\ text[1] = HeaderPart(AUDIT_NOTE_PREFIX, k, n)
           /\ missing # {} <=> k < n
           /\ matched # {} <=> k > 0
           /\ Cardinality(missing) <= 1 /\ Cardinality(matched) <= 1
           /\ \A j \in missing : text[j].count = n - k /\ text[j].total = n
           /\ \A j \in matched : text[j].count = k /\ text[j].total = n
           /\ \A a \in missing : \A b \in matched : a < b
           /\ Cardinality({j \in 1..Len(text) : text[j].part = "block"}) = n
           /\ \A i \in 1..n :
                 IF Truthy(txs[i].matched_doc_id)
                 THEN \E b \in matched :
                         IsBlockOf(text, b + MatchedUpTo(txs, i), txs[i], "v")
                 ELSE \E a \in missing :
                         /\ IsBlockOf(text, a + (i - MatchedUpTo(txs, i)), txs[i], "x")
                         /\ \A b \in matched : a + (i - MatchedUpTo(txs, i)) < b

\* C10 witness: a note is being written for two transactions, the first
\* unmatched and the second matched: both sections are in the text.
C10_Witness ==
    /\ pc = "note_post"
    /\ Len(transactions) = 2
    /\ ~Truthy(transactions[1].matched_doc_id)
    /\ Truthy(transactions[2].matched_doc_id)
    /\ Sections(note_text, "[MISSING]") = {2}
    /\ Sections(note_text, "[MATCHED]") = {4}

\* pct is 100 * matched / total rounded to a nearest integer.
Nearest(pct, matched, total) ==
    LET diff == 100 * matched - pct * total
    IN 2 * diff <= total /\ 2 * (0 - diff) <= total

\* C11 as stated: a run that reaches the summary reports a coverage
\* percentage, which is matched / total * 100 rounded (70% for 7 matched and
\* 3 unmatched) and is 0% when total is zero.
C11_CoverageReported ==
    /\ Summary(7, 3).coverage = [shown |-> TRUE, pct |-> 70]
    /\ summary.printed =>
          /\ summary.total = total_matched + total_unmatched
          /\ summary.coverage.shown
          /\ summary.total # 0 =>
                Nearest(summary.coverage.pct, summary.matched, summary.total)
          /\ summary.total = 0 => summary.coverage.pct = 0

\* C11, the part that holds: when total is not zero the percentage printed is
\* the rounded one; when total is zero the run ends without raising.
C11_RoundedWhenNonZero ==
    /\ Summary(7, 3).coverage = [shown |-> TRUE, pct |-> 70]
    /\ summary.printed =>
          /\ pc = "done"
          /\ summary.total = total_matched + total_unmatched
          /\ summary.coverage.shown <=> summary.total # 0
          /\ summary.total # 0 =>
                Nearest(summary.coverage.pct, summary.matched, summary.total)

\* A summary of three transactions, two of them matched: 67%.
C11_TwoOfThree ==
    /\ pc = "done"
    /\ summary.matched = 2
    /\ summary.unmatched = 1
    /\ summary.coverage = [shown |-> TRUE, pct |-> 67]

\* C12: for a transaction with a valid date d, every reference search and the
\* counterparty+amount search carry the bounds d - 365 and d + 14 when the
\* amount is positive and d - 30 and d + 14 when it is negative; the
\* amount-only search carries d - 5 and d + 5 whatever the sign.
C12_Windows ==
    search_log # << >> /\ LogTx.date.iso =>
        LET tx == LogTx
            d == tx.date.day
        IN \A j \in 1..Len(search_log) :
              LET r == search_log[j].request
              IN /\ r.tier \in {"ref", "counterparty_amount"} /\ tx.amount > 0 =>
                       /\ r.created__date__gte = [some |-> TRUE, day |-> d - 365]
                       /\ r.created__date__lte = [some |-> TRUE, day |-> d + 14]
                 /\ r.tier \in {"ref", "counterparty_amount"} /\ tx.amount < 0 =>
                       /\ r.created__date__gte = [some |-> TRUE, day |-> d - 30]
                       /\ r.created__date__lte = [some |-> TRUE, day |-> d + 14]
                 /\ r.tier = "amount" =>
                       /\ r.created__date__gte = [some |-> TRUE, day |-> d - 5]
                       /\ r.created__date__lte = [some |-> TRUE, day |-> d + 5]

\* C12 witness: match_transaction of the credit of day 410 went through its
\* three reference searches and the counterparty search, all from day 45 to
\* day 424, and the amount-only search, from day 405 to day 415.
C12_Witness ==
    /\ match_ret.returned
    /\ LogTx.amount > 0
    /\ LogTx.date = IsoDate(410)
    /\ Len(search_log) = 5
    /\ search_log[1].request.tier = "ref"
    /\ search_log[1].request.created__date__gte = SomeDate(45)
    /\ search_log[4].request.tier = "counterparty_amount"
    /\ search_log[4].request.created__date__lte = SomeDate(424)
    /\ search_log[5].request.tier = "amount"
    /\ search_log[5].request.created__date__gte = SomeDate(405)
    /\ search_log[5].request.created__date__lte = SomeDate(415)

\* Both match fields of every transaction of the mapping c, or neither.
BothOrNeither(c) ==
    \A d \in DOMAIN c : \A i \in 1..Len(c[d]) :
        c[d][i].matched_doc_id # NoId <=> c[d][i].matched_title # NoTitle

\* C13: in the in-memory cache between two transactions of the loop and in
\* the cache file, every transaction has matched_doc_id if and only if it has
\* matched_title; when match_transaction returns a document the transaction
\* gets its id and its title (the empty string for a document without one),
\* and when it returns none the transaction gets neither field.
C13_BothOrNeither ==
    /\ BothOrNeither(cache)
    /\ BothOrNeither(disk.statements)
    /\ match_ret.returned =>
          IF match_ret.doc # NoDoc
          THEN /\ LogTx.matched_doc_id = match_ret.doc.id
               /\ LogTx.matched_title # NoTitle
               /\ match_ret.doc.title # NoTitle => LogTx.matched_title = match_ret.doc.title
          ELSE /\ LogTx.matched_doc_id = NoId
               /\ LogTx.matched_title = NoTitle

\* C13 witness: the cache file of a finished run holds statement 1 with a
\* transaction matched to the document without a title, id 43 and the empty
\* title, and a transaction with neither field.
C13_Witness ==
    /\ pc = "done"
    /\ saves = 1
    /\ 1 \in DOMAIN disk.statements
    /\ Len(disk.statements[1]) = 2
    /\ disk.statements[1][1].matched_doc_id = 43
    /\ disk.statements[1][1].matched_title = ""
    /\ disk.statements[1][2].matched_doc_id = NoId
    /\ disk.statements[1][2].matched_title = NoTitle

\* Number of write_audit_note calls for statement d in the run so far.
CountCalls(d) == Len(SelectSeq(note_calls, LAMBDA x : x = d))

NotePcs == {"note_list", "note_delete", "note_post"}

\* C14: the flag is off when the environment does not set it.  In a run with
\* the flag off no list-notes, delete-note or create-note request is made and
\* no step of the run changes the notes of any document.  In a run with the
\* flag on write_audit_note is called at most once per statement, never for
\* a skipped statement, and exactly once for every statement the loop has
\* gone past without skipping it, which at the end of the run is every
\* statement that was not skipped.
C14_NotesGated ==
    /\ [](/\ ~WriteNotesFlag(EnvUnset)
          /\ ~WRITE_NOTES => pc \notin NotePcs /\ note_calls = << >> /\ note_ret = {}
          /\ WRITE_NOTES =>
                \A d \in StmtIds :
                    /\ CountCalls(d) <= 1
                    /\ d \in skipped => CountCalls(d) = 0
                    /\ Processed(d) /\ d \notin skipped => CountCalls(d) = 1
          /\ WRITE_NOTES /\ pc = "done" =>
                \A k \in 1..Len(statements) :
                    CountCalls(statements[k]) = IF statements[k] \in skipped THEN 0 ELSE 1)
    /\ [][~WRITE_NOTES => notes' = notes /\ next_note_id' = next_note_id]_vars

\* C14 witness: a finished run with the flag on over two statements, the
\* second of which was skipped: one call, for the first.
C14_Witness ==
    /\ WRITE_NOTES
    /\ pc = "done"
    /\ statements = << 1, 2 >>
    /\ skipped = {2}
    /\ note_calls = << 1 >>
    /\ note_ret # {}

\* Descriptions and ref fields extract_refs is tried on: every text of at most
\* MaxDescLen characters that the patterns can tell apart, and the description
\* of the credit; a ref that looks like a reference and one that is a blank.
DescPool ==
    SeqsUpTo({"N", "r", "5", "-", " "}, MaxDescLen) \cup {TxCredit.description}
RefPool == {<< "R", "7" >>, << " " >>, << "N", "r", "5" >>}

\* extract_refs on every description and every non-empty ref of the pools:
\* the first token is the ref, the rest are the tokens of the description.
RefFirstOnPools ==
    \A desc \in DescPool, ref \in RefPool :
        LET with == extract_refs(Tx(IsoDate(400), 100, "X", desc, ref))
            without == extract_refs(Tx(IsoDate(400), 100, "X", desc, << >>))
        IN /\ with[1] = ref
           /\ Tail(with) = without

\* C15: for a transaction with a non-empty ref the first token of extract_refs
\* is that ref, whatever the description holds, the tokens of the description
\* follow it, and the first search of match_transaction is the reference
\* search for ref.
C15_RefFirst ==
    /\ RefFirstOnPools
    /\ search_log # << >> /\ LogTx.ref # << >> =>
          /\ extract_refs(LogTx)[1] = LogTx.ref
          /\ search_log[1].request.tier = "ref"
          /\ search_log[1].request.ref = LogTx.ref

\* C15 witness: match_transaction of the credit with ref "R7" and description
\* "AB-1-2 nr9" searched for "R7" first, then for "AB-1-2", then for "9".
C15_Witness ==
    /\ Len(search_log) >= 3
    /\ LogTx.ref = << "R", "7" >>
    /\ search_log[1].request.ref = << "R", "7" >>
    /\ search_log[2].request.ref = << "A", "B", "-", "1", "-", "2" >>
    /\ search_log[3].request.ref = << "9" >>

\* The transactions `now` are the transactions `before`, in the same
\* positions and with the same five extracted fields; each has the match
\* fields it had, or had none and has both now.
OnlyMatchFilled(before, now) ==
    /\ Len(now) = Len(before)
    /\ \A i \in 1..Len(before) :
          /\ Extracted(now[i]) = Extracted(before[i])
          /\ \/ /\ now[i].matched_doc_id = before[i].matched_doc_id
                /\ now[i].matched_title = before[i].matched_title
             \/ /\ before[i].matched_doc_id = NoId
                /\ before[i].matched_title = NoTitle
                /\ now[i].matched_doc_id # NoId
                /\ now[i].matched_title # NoTitle

\* C16: a run changes nothing in a transaction of the loaded cache except its
\* match fields, which change only from unset to set: this holds of the
\* in-memory cache all along the run and of the cache file saved at its end.
C16_OnlyMatchFieldsChange ==
    /\ \A d \in DOMAIN loaded :
          d \in DOMAIN cache /\ OnlyMatchFilled(loaded[d], cache[d])
    /\ pc = "done" /\ saves = 1 =>
          \A d \in DOMAIN loaded :
              d \in DOMAIN disk.statements /\ OnlyMatchFilled(loaded[d], disk.statements[d])

\* C16 witness: the cache loaded held statement 1 with a matched and an
\* unmatched transaction; in the cache saved at the end of the run the first
\* is as it was and the second has been matched.
C16_Witness ==
    /\ pc = "done"
    /\ saves = 1
    /\ 1 \in DOMAIN loaded
    /\ Len(loaded[1]) = 2
    /\ Truthy(loaded[1][1].matched_doc_id)
    /\ loaded[1][2].matched_doc_id = NoId
    /\ disk.statements[1][1] = loaded[1][1]
    /\ Truthy(disk.statements[1][2].matched_doc_id)
    /\ Extracted(disk.statements[1][2]) = Extracted(loaded[1][2])

\* Statement d has left nothing in the run.
NoTrace(d) ==
    /\ d \notin DOMAIN cache
    /\ \A c \in searched : c[1] # d
    /\ CallsFor(d) = << >>
    /\ CountCalls(d) = 0
    /\ \A r \in note_ret : r.doc # d

\* C17: a statement skipped for want of content or because
\* extract_transactions raised has no entry in the cache, in memory or saved,
\* no search and no note; the step that skips it leaves the counters, the
\* cache and the notes as they are and goes on to the next statement; a
\* statement that is not in the loaded cache, which a skipped one is not in the
\* next run, goes through the extraction path again: the loop leaves it only
\* skipped or extracted.
C17_SkipLeavesNoTrace ==
    /\ [](/\ \A d \in skipped : NoTrace(d) /\ Processed(d) /\ d \notin DOMAIN loaded
          /\ pc = "done" /\ saves = 1 =>
                \A d \in skipped : d \notin DOMAIN disk.statements
          /\ pc \notin Stopped => loaded = load_cache(disk_before)
          /\ \A d \in StmtIds :
                Processed(d) /\ d \notin DOMAIN loaded =>
                    d \in skipped \/ d \in DOMAIN cache)
    /\ [][skipped' # skipped /\ skipped' # {} =>
             /\ UNCHANGED << total_matched, total_unmatched, cache, notes, searched,
                             match_calls, note_calls, disk >>
             /\ pc \in {"download", "ocr", "extract"}
             /\ pc' = "stmt"
             /\ si' = si + 1]_vars

\* C17 witness: a finished run over two statements, the first of which was
\* skipped: the cache saved holds the second only, with its transaction, the
\* one that was counted.
C17_Witness ==
    /\ pc = "done"
    /\ saves = 1
    /\ statements = << 1, 2 >>
    /\ skipped = {1}
    /\ DOMAIN disk.statements = {2}
    /\ Len(disk.statements[2]) = 1
    /\ total_matched + total_unmatched = 1

\* Over the statements at positions 1..k of the run that were not skipped:
\* the number of their transactions in the mapping c, and of the matched ones.
RECURSIVE TxCount(_, _), MatchedCount(_, _)
TxCount(c, k) ==
    IF k = 0 THEN 0
    ELSE TxCount(c, k - 1)
         + (IF statements[k] \in skipped THEN 0 ELSE Len(c[statements[k]]))
MatchedCount(c, k) ==
    IF k = 0 THEN 0
    ELSE MatchedCount(c, k - 1)
         + (IF statements[k] \in skipped THEN 0
            ELSE MatchedUpTo(c[statements[k]], Len(c[statements[k]])))

\* C18: at the end of a completed run total_matched + total_unmatched is the
\* number of transactions of the statements that were not skipped and
\* total_matched the number of them that are matched in the cache saved.
\* Each transaction is counted once: inside the loop the counters are those
\* numbers for the statements already left plus, for the current statement,
\* the transactions before the current one.
C18_CountsConsistent ==
    /\ pc = "done" /\ statements # << >> =>
          /\ saves = 1
          /\ total_matched + total_unmatched = TxCount(disk.statements, Len(statements))
          /\ total_matched = MatchedCount(disk.statements, Len(statements))
          /\ summary.total = total_matched + total_unmatched
          /\ summary.matched = total_matched
    /\ pc \in {"stmt", "download", "ocr", "extract", "save"} =>
          /\ total_matched + total_unmatched = TxCount(cache, si - 1)
          /\ total_matched = MatchedCount(cache, si - 1)
    /\ pc \in {"tx", "search"} \cup NotePcs =>
          LET done == IF pc = "search" THEN ti - 1 ELSE Min(ti - 1, Len(transactions))
          IN /\ total_matched + total_unmatched = TxCount(cache, si - 1) + done
             /\ total_matched = MatchedCount(cache, si - 1) + MatchedUpTo(transactions, done)

\* C18 witness: a finished run over statement 1, cached with a matched
\* transaction and one that stayed unmatched, and statement 2, skipped:
\* one matched, one unmatched.
C18_Witness ==
    /\ pc = "done"
    /\ statements = << 1, 2 >>
    /\ skipped = {2}
    /\ 1 \in DOMAIN loaded
    /\ Len(loaded[1]) = 2
    /\ Truthy(loaded[1][1].matched_doc_id)
    /\ total_matched = 1
    /\ total_unmatched = 1
    /\ ~Truthy(disk.statements[1][2].matched_doc_id)

\* The header of the audit note `text` says k/n for the transactions txs.
HeaderAgrees(text, txs) ==
    /\ text[1].part = "header"
    /\ text[1].count = MatchedUpTo(txs, Len(txs))
    /\ text[1].total = Len(txs)

\* The audit notes of document d that were created after the initial ones.
NewAuditNotes(d) ==
    SelectSeq(notes[d], LAMBDA n : StartsWithAudit(n.note)
                                   /\ \A j \in 1..Len(OldNotes) : n.id # OldNotes[j].id)

\* C19: the matches of a run are in the transaction list the cache holds, for
\* a cached statement and for a newly extracted one: in a run with WRITE_NOTES
\* on, the k/n of every text write_audit_note was called with and returned,
\* and of every audit note created on a document, is the number of matched
\* transactions and the number of transactions of that statement in the cache,
\* in memory from the call on and in the cache file at the end of a completed
\* run, in which every statement not skipped has had its call.
C19_NoteAgreesWithCache ==
    WRITE_NOTES =>
        /\ \A r \in note_ret : r.doc \in DOMAIN cache /\ HeaderAgrees(r.text, cache[r.doc])
        /\ pc \notin Stopped =>
              \A d \in DOMAIN cache : \A j \in 1..Len(NewAuditNotes(d)) :
                  HeaderAgrees(NewAuditNotes(d)[j].note, cache[d])
        /\ pc = "done" =>
              /\ \A r \in note_ret :
                    r.doc \in DOMAIN disk.statements
                    /\ HeaderAgrees(r.text, disk.statements[r.doc])
              /\ \A d \in StmtIds : \A j \in 1..Len(NewAuditNotes(d)) :
                    d \in DOMAIN disk.statements
                    /\ HeaderAgrees(NewAuditNotes(d)[j].note, disk.statements[d])
              /\ \A k \in 1..Len(statements) :
                    statements[k] \notin skipped =>
                        \E r \in note_ret : r.doc = statements[k]

\* C19 witness: a finished run with WRITE_NOTES on over statement 1, cached,
\* one of whose transactions was matched in this run, and statement 2, newly
\* extracted with one transaction, matched: each carries a new audit note
\* whose header agrees with the cache file.
C19_Witness ==
    /\ WRITE_NOTES
    /\ pc = "done"
    /\ statements = << 1, 2 >>
    /\ skipped = {}
    /\ 1 \in DOMAIN loaded
    /\ 2 \notin DOMAIN loaded
    /\ \E i \in 1..Len(loaded[1]) :
          ~Truthy(loaded[1][i].matched_doc_id) /\ Truthy(disk.statements[1][i].matched_doc_id)
    /\ Len(disk.statements[2]) = 1
    /\ Truthy(disk.statements[2][1].matched_doc_id)
    /\ Len(NewAuditNotes(1)) = 1
    /\ Len(NewAuditNotes(2)) = 1
    /\ NewAuditNotes(2)[1].note[1] = HeaderPart(AUDIT_NOTE_PREFIX, 1, 1)
    /\ NewAuditNotes(1)[1].note[1].count > 0

\* C20: for a transaction whose date is not a valid ISO date,
\* match_transaction goes through the same tiers in the same order, one search
\* per reference, one for counterparty and amount, one for the amount alone,
\* and returns; every search it issues, the amount-only one included, carries
\* neither created__date__gte nor created__date__lte.
C20_NoBoundsForBadDate ==
    search_log # << >> /\ ~LogTx.date.iso =>
        LET tx == LogTx
            refs == extract_refs(tx)
            n == Len(search_log)
        IN /\ n <= Len(refs) + 2
           /\ \A j \in 1..n :
                 LET r == search_log[j].request
                 IN /\ r.created__date__gte = NoDate
                    /\ r.created__date__lte = NoDate
                    /\ r.tier = (IF j <= Len(refs) THEN "ref"
                                 ELSE IF j = Len(refs) + 1 THEN "counterparty_amount"
                                 ELSE "amount")
           /\ pc = "search" => qi = n + 1 /\ qi <= Len(refs) + 2
           /\ match_ret.returned /\ match_ret.doc = NoDoc => n = Len(refs) + 2

\* C20 witness: match_transaction of the undated credit "Nr5" made its
\* reference search, its counterparty search and its amount-only search, none
\* with a date bound, and returned none.
C20_Witness ==
    /\ Len(search_log) = 3
    /\ ~LogTx.date.iso
    /\ match_ret.returned
    /\ match_ret.doc = NoDoc
    /\ search_log[1].request.tier = "ref"
    /\ search_log[1].request.ref = << "5" >>
    /\ search_log[3].request.tier = "amount"
    /\ search_log[3].request.created__date__gte = NoDate
    /\ search_log[3].request.created__date__lte = NoDate

====
